---- MODULE Spec2Model ----
(***************************************************************************)
(* Model of src/src/App.jsx: the fly-over camera (FlyCamera), the model    *)
(* bounds publication (MontVallonModel), the focus point held by Scene and *)
(* the two sliders held by App.                                            *)
(*                                                                         *)
(* Numbers are fixed point.                                                *)
(*   speed, flySpeed      hundredths        (0.15  is  15)                 *)
(*   delta                whole seconds     (clock delta of one frame)     *)
(*   t                    hundredths        (t.current; delta * speed)     *)
(*   angles               thousandths of a radian                          *)
(*   zoomFactor, radius, height, positions, target: thousandths            *)
(*   fov, perspective     degrees                                          *)
(* Math.sin and Math.cos are evaluated by a Taylor polynomial after range  *)
(* reduction; the result is within 1/1000 of the real value.               *)
(***************************************************************************)
EXTENDS Integers, Sequences, FiniteSets, TLC

\* ------------------------------------------------------------ bounds
\* Largest frame delta (seconds) the renderer hands to useFrame.
MaxDelta == 2
\* Frames stop being explored once t.current would pass this (hundredths).
MaxElapsed == 600

\* ------------------------------------------------------------ program constants
SPEED_MIN == 5
SPEED_MAX == 35
SPEED_INIT == 15
FOV_MIN == 50
FOV_MAX == 100
FOV_INIT == 75
ORBIT_RATE == 3
ZOOM_RATE == 12
ZOOM_CAP == 6000
MIN_RADIUS == 20000
BASE_RADIUS == 26000
RADIUS_SCALE == 15
BASE_HEIGHT == 12000
DRIFT_RATE == 4
DRIFT_AMPLITUDE == 3

\* useState([0, 0.5, 0]) in Scene, and FlyCamera's default target.
DEFAULT_TARGET == <<0, 500, 0>>
\* camera={{ position: [0, 50, 150], ... }} on the Canvas.
INITIAL_POSITION == <<0, 50000, 150000>>

\* Values the two range inputs are driven to: both ends and the initial value.
Speeds == {SPEED_MIN, SPEED_INIT, SPEED_MAX}
Fovs == {FOV_MIN, FOV_INIT, FOV_MAX}
Deltas == 0..MaxDelta

\* ------------------------------------------------------------ Math.sin / Math.cos
PI_MILLI == 3142
HALF_PI_MILLI == 1571
TWO_PI_MILLI == 6283

\* sin on [0, pi/2]: x (1 - x^2/6 (1 - x^2/20 (1 - x^2/42 (1 - x^2/72)))).
SinQuarter(x) ==
    LET x2 == (x * x) \div 100
        a  == 10000 - x2 \div 72
        b  == 10000 - (x2 * a) \div 420000
        c  == 10000 - (x2 * b) \div 200000
        d  == 10000 - (x2 * c) \div 60000
    IN  (x * d + 5000) \div 10000

Sin(x) ==
    LET r == x % TWO_PI_MILLI
    IN  IF r <= HALF_PI_MILLI THEN SinQuarter(r)
        ELSE IF r <= PI_MILLI THEN SinQuarter(PI_MILLI - r)
        ELSE IF r <= PI_MILLI + HALF_PI_MILLI THEN 0 - SinQuarter(r - PI_MILLI)
        ELSE 0 - SinQuarter(TWO_PI_MILLI - r)

Cos(x) == Sin(x + HALF_PI_MILLI)

Min(a, b) == IF a <= b THEN a ELSE b
Max(a, b) == IF a >= b THEN a ELSE b

\* ------------------------------------------------------------ Box3 (three.js)
\* A box is [min |-> <<x,y,z>>, max |-> <<x,y,z>>]. new Box3() starts empty
\* (min = +Infinity, max = -Infinity); setFromObject leaves it empty when the
\* object has no geometry.
INF == 1000000
EmptyBox == [min |-> <<INF, INF, INF>>, max |-> <<0 - INF, 0 - INF, 0 - INF>>]
\* extent [4,6]^3, centre (5,5,5)
CubeBox == [min |-> <<4000, 4000, 4000>>, max |-> <<6000, 6000, 6000>>]
\* a single positioned point: zero extent on every axis
PointBox == [min |-> <<2000, 3000, 4000>>, max |-> <<2000, 3000, 4000>>]
\* a terrain-like box around the origin
TerrainBox == [min |-> <<-8000, -2500, -6000>>, max |-> <<8000, 1500, 6000>>]
Boxes == {EmptyBox, CubeBox, PointBox, TerrainBox}

IsEmpty(box) == \E i \in 1..3 : box.max[i] < box.min[i]

\* Box3.getCenter: (0,0,0) for an empty box, else (min + max) * 0.5.
GetCenter(box) ==
    IF IsEmpty(box) THEN <<0, 0, 0>>
    ELSE [i \in 1..3 |-> (box.min[i] + box.max[i]) \div 2]

\* The box has no measurable extent: empty, or zero size on every axis.
Degenerate(box) == IsEmpty(box) \/ box.min = box.max

\* ------------------------------------------------------------ state
VARIABLES
    flySpeed,      \* App: useState(0.15)
    perspective,   \* App: useState(75)
    speed,         \* FlyCamera prop `speed` as of the last committed render
    fov,           \* FlyCamera prop `fov` as of the last committed render
    cameraFov,     \* camera.fov
    target,        \* Scene: useState([0, 0.5, 0]); FlyCamera prop `target`
    t,             \* FlyCamera: t.current
    status,        \* useGLTF: "loading", "mounted" (model in the scene), "failed"
    running,       \* the React tree (Canvas, Scene, FlyCamera, sliders) is mounted
    boundsCalls,   \* how many times onBounds has been called
    published,     \* argument of the last onBounds call (<<>> before any)
    loadedBox,     \* world-space Box3 of the mounted model (EmptyBox before)
    rerendered,    \* a slider re-render has committed while the model was mounted
    frameRan,      \* useFrame's callback has run at least once
    zoomFactor,    \* locals of the last frame
    radius,
    height,
    position,      \* camera.position
    lookAt         \* argument of the last camera.lookAt (<<>> before any)

vars == <<flySpeed, perspective, speed, fov, cameraFov, target, t, status,
          running, boundsCalls, published, loadedBox, rerendered, frameRan,
          zoomFactor, radius, height, position, lookAt>>

appVars == <<flySpeed, perspective>>
propVars == <<speed, fov>>
loadVars == <<status, running, boundsCalls, published, loadedBox, rerendered>>
frameVars == <<t, frameRan, zoomFactor, radius, height, position, lookAt>>

Init ==
    /\ flySpeed = SPEED_INIT
    /\ perspective = FOV_INIT
    /\ speed = SPEED_INIT
    /\ fov = FOV_INIT
    /\ cameraFov = FOV_INIT
    /\ target = DEFAULT_TARGET
    /\ t = 0
    /\ status = "loading"
    /\ running = TRUE
    /\ boundsCalls = 0
    /\ published = <<>>
    /\ loadedBox = EmptyBox
    /\ rerendered = FALSE
    /\ frameRan = FALSE
    /\ zoomFactor = 0
    /\ radius = 0
    /\ height = 0
    /\ position = INITIAL_POSITION
    /\ lookAt = <<>>

\* ------------------------------------------------------------ FlyCamera.useFrame
\* Variants of the frame arithmetic that differ from the source.
\* t.current = delta * speed: the accumulator restarts on every frame.
AdvanceRestart(elapsed, delta, spd) == delta * spd
\* t.current = (t.current + delta) * speed: the accumulated value is rescaled.
AdvanceRescale(elapsed, delta, spd) == ((elapsed + delta * 100) * spd) \div 100
\* t.current += delta * speed
Advance(elapsed, delta, spd) == elapsed + delta * spd

\* const orbitAngle = t.current * 0.3
OrbitAngle(elapsed) == elapsed * ORBIT_RATE

\* t.current * 1.2 without Math.min.
ZoomFactorNoCap(elapsed) == elapsed * ZOOM_RATE
\* const zoomFactor = Math.min(t.current * 1.2, 6)
ZoomFactor(elapsed) == Min(elapsed * ZOOM_RATE, ZOOM_CAP)

\* 26 - zoomFactor * 1.5 without Math.max.
RadiusNoFloor(zf) == BASE_RADIUS - (zf * RADIUS_SCALE) \div 10
\* const radius = Math.max(20, 26 - zoomFactor * 1.5)
Radius(zf) == Max(MIN_RADIUS, BASE_RADIUS - (zf * RADIUS_SCALE) \div 10)

\* const height = 12 + Math.sin(t.current * 0.4) * 3
Height(elapsed) == BASE_HEIGHT + Sin(elapsed * DRIFT_RATE) * DRIFT_AMPLITUDE

\* The orbit around the origin instead of around `target`.
PositionAroundOrigin(tgt, angle, rad, h) ==
    << (Cos(angle) * rad) \div 1000, h, (Sin(angle) * rad) \div 1000 >>
\* camera.position.set(target[0] + cos * radius, target[1] + height, target[2] + sin * radius)
Position(tgt, angle, rad, h) ==
    << tgt[1] + (Cos(angle) * rad) \div 1000,
       tgt[2] + h,
       tgt[3] + (Sin(angle) * rad) \div 1000 >>

Frame(delta) ==
    /\ running
    /\ Advance(t, delta, speed) <= MaxElapsed
    /\ t' = Advance(t, delta, speed)
    /\ zoomFactor' = ZoomFactor(t')
    /\ radius' = Radius(zoomFactor')
    /\ height' = Height(t')
    /\ position' = Position(target, OrbitAngle(t'), radius', height')
    /\ lookAt' = target
    /\ frameRan' = TRUE
    /\ UNCHANGED <<appVars, propVars, cameraFov, target, loadVars>>

\* ------------------------------------------------------------ FlyCamera.useEffect
\* useEffect(() => { camera.fov = fov; camera.updateProjectionMatrix() }, [camera, fov])
\* A passive effect: it runs after the render that changed `fov` has committed,
\* and frames may run before it does. It is pending exactly while camera.fov
\* differs from the committed prop.
\* camera.fov eased half way towards the prop instead of set to it.
FovEffectEased ==
    /\ running
    /\ cameraFov # fov
    /\ cameraFov' = (cameraFov + fov) \div 2
    /\ UNCHANGED <<appVars, propVars, target, loadVars, frameVars>>

FovEffect ==
    /\ running
    /\ cameraFov # fov
    /\ cameraFov' = fov
    /\ UNCHANGED <<appVars, propVars, target, loadVars, frameVars>>

\* ------------------------------------------------------------ MontVallonModel
\* onBounds={setTarget}: the setter useState returns is the same function on
\* every render of Scene.
OnBoundsId == "setTarget"

\* useLayoutEffect without a dependency list: runs after every render.
LayoutEffectFiresAlways(isMount, prevDep, nextDep) == TRUE

\* useLayoutEffect(..., [onBounds]): runs at mount, and after a re-render whose
\* onBounds differs from the previous one.
LayoutEffectFires(isMount, prevDep, nextDep) == isMount \/ prevDep # nextDep

\* How many times the effect body runs again because of one re-render.
Reruns == IF LayoutEffectFires(FALSE, OnBoundsId, OnBoundsId) THEN 1 ELSE 0

\* useGLTF resolves: the primitive mounts, the layout effect measures it and
\* calls onBounds = setTarget; the state update made in a layout effect
\* re-renders Scene (and FlyCamera, with the new target) before any frame.
ModelMount(box) ==
    /\ running
    /\ status = "loading"
    /\ status' = "mounted"
    /\ loadedBox' = box
    /\ published' = GetCenter(box)
    /\ target' = GetCenter(box)
    /\ boundsCalls' = boundsCalls + 1 + Reruns
    /\ UNCHANGED <<appVars, propVars, cameraFov, running, rerendered, frameVars>>

\* useGLTF rejects: it throws while MontVallonModel renders. Suspense handles
\* only the pending state and no error boundary is declared, so the error
\* unmounts the tree: Canvas, Scene and FlyCamera (with its useFrame
\* subscription) and the overlay with both sliders.
ModelFail ==
    /\ running
    /\ status = "loading"
    /\ status' = "failed"
    /\ running' = FALSE
    /\ UNCHANGED <<appVars, propVars, cameraFov, target, boundsCalls, published,
                   loadedBox, rerendered, frameVars>>

\* ------------------------------------------------------------ App
\* onChange={(e) => setFlySpeed(parseFloat(e.target.value))}
SetFlySpeed(v) ==
    /\ running
    /\ v # flySpeed
    /\ flySpeed' = v
    /\ UNCHANGED <<perspective, propVars, cameraFov, target, loadVars, frameVars>>

\* onChange={(e) => setPerspective(parseFloat(e.target.value))}
SetPerspective(v) ==
    /\ running
    /\ v # perspective
    /\ perspective' = v
    /\ UNCHANGED <<flySpeed, propVars, cameraFov, target, loadVars, frameVars>>

\* The re-render a slider's state update schedules commits:
\* <Scene flySpeed={flySpeed} perspective={perspective} /> and
\* <FlyCamera target={target} speed={flySpeed} fov={perspective} /> hand the new
\* values down, useFrame's callback now closes over them, and MontVallonModel's
\* layout effect is re-evaluated against its dependency list.
RenderCommit ==
    /\ running
    /\ speed # flySpeed \/ fov # perspective
    /\ speed' = flySpeed
    /\ fov' = perspective
    /\ IF status = "mounted"
       THEN /\ rerendered' = TRUE
            /\ boundsCalls' = boundsCalls + Reruns
            /\ published' = (IF Reruns > 0 THEN GetCenter(loadedBox) ELSE published)
            /\ target' = (IF Reruns > 0 THEN GetCenter(loadedBox) ELSE target)
       ELSE UNCHANGED <<rerendered, boundsCalls, published, target>>
    /\ UNCHANGED <<appVars, cameraFov, status, running, loadedBox, frameVars>>

\* ------------------------------------------------------------ specification
FramePos == \E d \in 1..MaxDelta : Frame(d)

Next ==
    \/ \E v \in Speeds : SetFlySpeed(v)
    \/ \E v \in Fovs : SetPerspective(v)
    \/ RenderCommit
    \/ FovEffect
    \/ \E d \in Deltas : Frame(d)
    \/ \E b \in Boxes : ModelMount(b)
    \/ ModelFail

Spec == Init /\ [][Next]_vars

\* The renderer calls useFrame's callback on every display refresh while the
\* tree is mounted, and React runs every render and effect it has scheduled.
LiveSpec ==
    /\ Init
    /\ [][Next]_vars
    /\ WF_vars(FramePos)
    /\ WF_vars(RenderCommit)
    /\ WF_vars(FovEffect)

TypeOK ==
    /\ flySpeed \in Speeds /\ speed \in Speeds
    /\ perspective \in Fovs /\ fov \in Fovs /\ cameraFov \in Fovs
    /\ t \in 0..MaxElapsed
    /\ status \in {"loading", "mounted", "failed"}
    /\ running \in BOOLEAN /\ frameRan \in BOOLEAN /\ rerendered \in BOOLEAN
    /\ boundsCalls \in Nat

\* ------------------------------------------------------------ properties
\* A step in which useFrame's callback did something: it alone writes these.
FrameStep == frameVars' # frameVars

\* C1: t.current never decreases, whatever the step: a frame (delta >= 0,
\* speed > 0), a slider change, a re-render, the fov effect, the bounds
\* publication.
C1_ElapsedMonotonic == [][t' >= t]_vars

C1_Witness ==
    /\ t > 0 /\ frameRan
    /\ status = "mounted"
    /\ speed # SPEED_INIT
    /\ cameraFov # FOV_INIT

C3_RadiusFloor ==
    frameRan =>
        LET dx == position[1] - lookAt[1]
            dz == position[3] - lookAt[3]
        IN  /\ radius >= MIN_RADIUS
            /\ dx * dx + dz * dz >= (MIN_RADIUS - 40) * (MIN_RADIUS - 40)
            /\ position # lookAt

\* A frame where 26 - zoomFactor * 1.5 = 17 is below the floor.
C3_Witness == frameRan /\ zoomFactor = ZOOM_CAP /\ radius = MIN_RADIUS

\* C4: zoomFactor never exceeds 6; it is t * 1.2 up to t = 5 and 6 from there.
C4_ZoomSaturates ==
    frameRan =>
        /\ zoomFactor <= ZOOM_CAP
        /\ t <= 500 => zoomFactor = 12 * t
        /\ t >= 500 => zoomFactor = ZOOM_CAP

C4_Witness == frameRan /\ t > 500 /\ zoomFactor = ZOOM_CAP

\* C5 (as claimed): after a model with no measurable extent has mounted, the
\* focus point is the default [0, 0.5, 0].
C5_DegenerateFallsBack ==
    (status = "mounted" /\ Degenerate(loadedBox)) => target = DEFAULT_TARGET

C7_LoadFailureKeepsRendering ==
    status = "failed" => (running /\ target = DEFAULT_TARGET)

\* C8: onBounds is called once when the model mounts and never again, whatever
\* re-renders follow.
C8_BoundsOncePerLoad ==
    /\ boundsCalls = (IF status = "mounted" THEN 1 ELSE 0)
    /\ status = "mounted" => (published = GetCenter(loadedBox) /\ target = published)

C8_Witness == status = "mounted" /\ rerendered /\ boundsCalls = 1 /\ frameRan

\* C9 (as claimed): by the time a frame runs, camera.fov is the slider's value.
C9_FovByNextFrame == [][FrameStep => cameraFov = perspective]_vars

\* C9 (amended): a perspective change touches neither t.current, the focus
\* point nor the pose; camera.fov changes only in the fov effect, which sets it
\* to the `fov` prop, itself always a value the slider held; frames do not
\* touch camera.fov.
C9_FovIndependent ==
    [][ /\ perspective' # perspective =>
            (frameVars' = frameVars /\ target' = target /\ cameraFov' = cameraFov)
        /\ fov' # fov => fov' = perspective
        /\ cameraFov' # cameraFov =>
            (cameraFov' = fov /\ frameVars' = frameVars /\ target' = target)
        /\ FrameStep => cameraFov' = cameraFov
      ]_vars

\* The slider was moved, frames have run, and the effect has applied the value.
C9_Witness ==
    /\ perspective = FOV_MAX /\ fov = FOV_MAX /\ cameraFov = FOV_MAX
    /\ frameRan /\ t > 0

\* C10 (as claimed): the radius eventually is 20 and stays 20.
C10_RadiusSettles == <>[](frameRan /\ radius = MIN_RADIUS)

\* C10, the part that does not need frames to keep coming: from one frame to
\* the next the radius does not grow, and once 20 it stays 20.
C10_RadiusNonIncreasing ==
    [][(frameRan /\ frameRan') => (radius' <= radius /\ radius' >= MIN_RADIUS)]_vars

====
